---- MODULE Spec2Model ----
(***************************************************************************)
(* geom::Vector2<Scalar> (inc/geom/Vector2.hpp): a two component value     *)
(* type, its comparison and arithmetic operators, and the free functions   *)
(* length, dot, reflect and refract.                                       *)
(*                                                                         *)
(* Scalars.  A scalar is a record [kind, v, st].  kind is one of the       *)
(* scalar types of the typedefs Vec2i, Vec2u, Vec2l, Vec2ul and Vec2d.     *)
(* The integer kinds keep two's complement fixed width arithmetic, but     *)
(* with scaled widths: std::int32_t and std::uint32_t have IntBits bits,   *)
(* std::int64_t and std::uint64_t have 2 * IntBits bits (TLC's own         *)
(* integers are 32 bit wide and could not hold the products otherwise).    *)
(* A double is a fixed point number: v counts units of 1 / Scale, and a    *)
(* product, quotient or square root is rounded to the nearest unit, ties   *)
(* to even.  The range of a double is not bounded and its significand is   *)
(* not limited, so the conversion of an integer to double is exact here.   *)
(* float (Vec2f) is not modelled.                                          *)
(*                                                                         *)
(* st is the status of an evaluation:                                      *)
(*   "ok"  every step was defined and finite;                              *)
(*   "ub"  a step was undefined in C++: overflow of a signed integer kind, *)
(*         an integer division by zero, the conversion of a double whose   *)
(*         truncation the target kind cannot hold.  v then holds what a    *)
(*         build that goes on computes (the two's complement wrap, 0 for   *)
(*         a division by zero); an action that evaluated such a step may   *)
(*         equally end in "trap", as a build that traps does;              *)
(*   "nf"  the result is an infinity or a NaN (a double divided by zero,   *)
(*         the square root of a negative double): such values are not      *)
(*         represented, and the run ends in "nonfinite".                   *)
(***************************************************************************)
EXTENDS Integers, Sequences, FiniteSets, TLC

VARIABLES
  a,    \* the left operand (a Vector2 object)
  b,    \* the right operand (a Vector2 object)
  k,    \* the scalar operand
  r,    \* the value the last operation returned
  pc,   \* the last operation
  h,    \* the operations whose results were stored into a, in order
  v0    \* the value a was constructed with

vars == <<a, b, k, r, pc, h, v0>>

\* width of std::int32_t and std::uint32_t in the model
IntBits == 4
\* a double counts units of 1 / Scale
Scale == 4
\* the number of results stored into a in one run
MaxOps == 2

-----------------------------------------------------------------------------
(* Scalar kinds                                                            *)

IntKinds == {"int32", "uint32", "int64", "uint64"}

Kinds == IntKinds \cup {"double"}

Signed(kind) == kind \in {"int32", "int64"}

Bits(kind) == IF kind \in {"int32", "uint32"} THEN IntBits ELSE 2 * IntBits

RECURSIVE Pow2(_)
Pow2(n) == IF n = 0 THEN 1 ELSE 2 * Pow2(n - 1)

MinOf(kind) == IF Signed(kind) THEN -Pow2(Bits(kind) - 1) ELSE 0

MaxOf(kind) == IF Signed(kind) THEN Pow2(Bits(kind) - 1) - 1 ELSE Pow2(Bits(kind)) - 1

InRange(kind, n) == MinOf(kind) <= n /\ n <= MaxOf(kind)

\* the value of kind congruent to n modulo 2^Bits(kind)
Wrap(kind, n) ==
  LET m == Pow2(Bits(kind))
      u == n % m
  IN  IF Signed(kind) /\ u >= m \div 2 THEN u - m ELSE u

\* conversion rank of the usual arithmetic conversions (LP64)
Rank(kind) ==
  CASE kind = "int32" -> 1
    [] kind = "uint32" -> 2
    [] kind = "int64" -> 3
    [] kind = "uint64" -> 4
    [] kind = "double" -> 5

\* std::common_type of two kinds: the kind a built-in binary operator
\* converts both operands to
Common(k1, k2) == IF Rank(k1) >= Rank(k2) THEN k1 ELSE k2

\* VectorOpResult<R, L>::type (VectorTraits.hpp)
VectorOpResult(rk, lk) == Common(rk, lk)

-----------------------------------------------------------------------------
(* Scalar values and the built-in operators on them                        *)

Join(s1, s2) ==
  IF s1 = "ub" \/ s2 = "ub" THEN "ub"
  ELSE IF s1 = "nf" \/ s2 = "nf" THEN "nf"
  ELSE "ok"

Sc(kind, v) == [kind |-> kind, v |-> v, st |-> "ok"]

\* an integer literal (int) and a floating literal (double)
IntLit(n) == Sc("int32", n)

DblLit(n) == Sc("double", n * Scale)

\* integer division of C++: the quotient truncated toward zero
TDiv(x, y) ==
  LET q == (IF x < 0 THEN -x ELSE x) \div (IF y < 0 THEN -y ELSE y)
  IN  IF (x < 0) = (y < 0) THEN q ELSE -q

\* n / d rounded to the nearest integer, ties to even (d > 0)
RoundDiv(n, d) ==
  LET q == n \div d
      m == n % d
  IN  IF 2 * m < d THEN q
      ELSE IF 2 * m > d THEN q + 1
      ELSE IF q % 2 = 0 THEN q ELSE q + 1

\* the conversion rounding toward minus infinity
TruncFloor(v) == v \div Scale

\* the integer part of a double whose units are v: truncation toward zero
Trunc(v) == IF v >= 0 THEN v \div Scale ELSE -((-v) \div Scale)

\* static_cast<kind>(s), and the implicit conversion of s to kind
Conv(kind, s) ==
  IF s.kind = kind THEN s
  ELSE IF kind = "double" THEN [kind |-> kind, v |-> s.v * Scale, st |-> s.st]
  ELSE IF s.kind = "double"
    THEN LET t == Trunc(s.v)
         IN  [kind |-> kind, v |-> Wrap(kind, t),
              st |-> IF s.st = "ok" /\ InRange(kind, t) THEN "ok" ELSE "ub"]
  ELSE [kind |-> kind, v |-> Wrap(kind, s.v), st |-> s.st]

\* p op q for op one of + - * /, after the usual arithmetic conversions
Arith(op, p, q) ==
  LET c == Common(p.kind, q.kind)
      x == Conv(c, p).v
      y == Conv(c, q).v
      s == Join(p.st, q.st)
  IN  IF c = "double"
      THEN [kind |-> c,
            v |-> CASE op = "+" -> x + y
                    [] op = "-" -> x - y
                    [] op = "*" -> RoundDiv(x * y, Scale)
                    [] op = "/" -> IF y = 0 THEN 0
                                   ELSE IF y > 0 THEN RoundDiv(x * Scale, y)
                                   ELSE RoundDiv(-(x * Scale), -y),
            st |-> IF op = "/" /\ y = 0 THEN Join(s, "nf") ELSE s]
      ELSE LET e == CASE op = "+" -> x + y
                      [] op = "-" -> x - y
                      [] op = "*" -> x * y
                      [] op = "/" -> IF y = 0 THEN 0 ELSE TDiv(x, y)
           IN  [kind |-> c, v |-> Wrap(c, e),
                st |-> IF (op = "/" /\ y = 0) \/ (Signed(c) /\ ~InRange(c, e))
                       THEN "ub" ELSE s]

\* p == q, p < q, p <= q after the usual arithmetic conversions
CmpEq(p, q) ==
  LET c == Common(p.kind, q.kind) IN Conv(c, p).v = Conv(c, q).v

CmpLt(p, q) ==
  LET c == Common(p.kind, q.kind) IN Conv(c, p).v < Conv(c, q).v

CmpLe(p, q) ==
  LET c == Common(p.kind, q.kind) IN Conv(c, p).v <= Conv(c, q).v

RECURSIVE ISqrtIn(_, _, _)
ISqrtIn(n, lo, hi) ==
  IF lo = hi THEN lo
  ELSE LET mid == (lo + hi + 1) \div 2
       IN  IF mid * mid <= n THEN ISqrtIn(n, mid, hi) ELSE ISqrtIn(n, lo, mid - 1)

\* the largest integer whose square is at most n
ISqrt(n) ==
  ISqrtIn(n, 0, IF n < 4 THEN n ELSE IF n \div 2 > 46340 THEN 46340 ELSE n \div 2)

\* std::sqrt of a double: the root rounded to the nearest unit
Sqrt(s) ==
  IF s.v < 0 THEN [kind |-> "double", v |-> 0, st |-> Join(s.st, "nf")]
  ELSE LET m == s.v * Scale
           f == ISqrt(m)
       IN  [kind |-> "double", v |-> IF m - f * f > f THEN f + 1 ELSE f, st |-> s.st]

-----------------------------------------------------------------------------
(* Vector2<Scalar>                                                         *)

\* the members x and y of a vector as scalars
X(vec) == [kind |-> vec.kind, v |-> vec.x, st |-> vec.st]

Y(vec) == [kind |-> vec.kind, v |-> vec.y, st |-> vec.st]

\* Vector2<kind>(x, y)
Vector2(kind, sx, sy) ==
  LET cx == Conv(kind, sx)
      cy == Conv(kind, sy)
  IN  [kind |-> kind, x |-> cx.v, y |-> cy.v, st |-> Join(cx.st, cy.st)]

\* Vector2<kind>()
Zero(kind) == Vector2(kind, IntLit(0), IntLit(0))

\* Vector2<kind>(const Vector2<Other> &source)
ConvertCtor(kind, source) == Vector2(kind, X(source), Y(source))

\* this->operator=(source), the new value of *this
OpAssign(this, source) ==
  [kind |-> this.kind,
   x |-> Conv(this.kind, X(source)).v,
   y |-> Conv(this.kind, Y(source)).v,
   st |-> Join(Conv(this.kind, X(source)).st, Conv(this.kind, Y(source)).st)]

OpEq(lhs, rhs) == CmpEq(X(lhs), X(rhs)) /\ CmpEq(Y(lhs), Y(rhs))

OpNe(lhs, rhs) == ~OpEq(lhs, rhs)

\* operator> taken to hold as soon as one component is greater
OpGtEither(lhs, rhs) == CmpLt(X(rhs), X(lhs)) \/ CmpLt(Y(rhs), Y(lhs))

OpGt(lhs, rhs) == CmpLt(X(rhs), X(lhs)) /\ CmpLt(Y(rhs), Y(lhs))

OpGe(lhs, rhs) == CmpLe(X(rhs), X(lhs)) /\ CmpLe(Y(rhs), Y(lhs))

OpLt(lhs, rhs) == CmpLt(X(lhs), X(rhs)) /\ CmpLt(Y(lhs), Y(rhs))

OpLe(lhs, rhs) == CmpLe(X(lhs), X(rhs)) /\ CmpLe(Y(lhs), Y(rhs))

\* operator+ adding lhs.x into both components
OpAddXX(lhs, rhs) ==
  Vector2(VectorOpResult(rhs.kind, lhs.kind),
          Arith("+", X(lhs), X(rhs)), Arith("+", X(lhs), Y(rhs)))

OpAdd(lhs, rhs) ==
  Vector2(VectorOpResult(rhs.kind, lhs.kind),
          Arith("+", X(lhs), X(rhs)), Arith("+", Y(lhs), Y(rhs)))

OpSub(lhs, rhs) ==
  Vector2(VectorOpResult(rhs.kind, lhs.kind),
          Arith("-", X(lhs), X(rhs)), Arith("-", Y(lhs), Y(rhs)))

\* vector * scalar
OpMulScalar(lhs, rhs) ==
  Vector2(VectorOpResult(rhs.kind, lhs.kind),
          Arith("*", X(lhs), rhs), Arith("*", Y(lhs), rhs))

\* scalar * vector
OpScalarMul(lhs, rhs) ==
  Vector2(VectorOpResult(rhs.kind, lhs.kind),
          Arith("*", X(rhs), lhs), Arith("*", Y(rhs), lhs))

\* operator/ dividing lhs.x for both components
OpDivScalarXX(lhs, rhs) ==
  Vector2(VectorOpResult(rhs.kind, lhs.kind),
          Arith("/", X(lhs), rhs), Arith("/", X(lhs), rhs))

\* vector / scalar
OpDivScalar(lhs, rhs) ==
  Vector2(VectorOpResult(rhs.kind, lhs.kind),
          Arith("/", X(lhs), rhs), Arith("/", Y(lhs), rhs))

\* length(const Vector2<Scalar> &v), Scalar not float
length(vec) ==
  Sqrt(Conv("double", Arith("+", Arith("*", X(vec), X(vec)),
                                 Arith("*", Y(vec), Y(vec)))))

\* dot returning in the kind of its left operand
dotLhsKind(lhs, rhs) ==
  Conv(lhs.kind,
       Arith("+", Arith("*", X(lhs), X(rhs)), Arith("*", Y(lhs), Y(rhs))))

dot(lhs, rhs) ==
  Conv(VectorOpResult(rhs.kind, lhs.kind),
       Arith("+", Arith("*", X(lhs), X(rhs)), Arith("*", Y(lhs), Y(rhs))))

\* reflect without the factor 2
reflectOnce(vec, normal) ==
  LET Result == VectorOpResult(normal.kind, vec.kind)
      i == ConvertCtor(Result, vec)
      n == ConvertCtor(Result, normal)
  IN  ConvertCtor(Result, OpSub(i, OpScalarMul(dot(i, n), n)))

reflect(vec, normal) ==
  LET Result == VectorOpResult(normal.kind, vec.kind)
      i == ConvertCtor(Result, vec)
      n == ConvertCtor(Result, normal)
  IN  ConvertCtor(Result, OpSub(i, OpScalarMul(Arith("*", IntLit(2), dot(i, n)), n)))

\* refract returning the zero vector for k <= 0
refractLe(i, n, eta) ==
  LET R == Common(eta.kind, Common(i.kind, n.kind))
      dot_ni == Conv(R, dot(n, i))
      kk == Conv(R, Arith("-", DblLit(1),
                    Arith("*", Arith("*", eta, eta),
                          Arith("-", DblLit(1), Arith("*", dot_ni, dot_ni)))))
  IN  IF CmpLe(kk, DblLit(0))
      THEN Vector2(R, DblLit(0), DblLit(0))
      ELSE ConvertCtor(R,
             OpSub(OpScalarMul(eta, i),
                   OpScalarMul(Arith("+", Arith("*", eta, dot_ni), Sqrt(kk)), n)))

\* refract(i, n, eta), eta a double
refract(i, n, eta) ==
  LET R == Common(eta.kind, Common(i.kind, n.kind))
      dot_ni == Conv(R, dot(n, i))
      kk == Conv(R, Arith("-", DblLit(1),
                    Arith("*", Arith("*", eta, eta),
                          Arith("-", DblLit(1), Arith("*", dot_ni, dot_ni)))))
  IN  IF CmpLt(kk, DblLit(0))
      THEN Vector2(R, DblLit(0), DblLit(0))
      ELSE ConvertCtor(R,
             OpSub(OpScalarMul(eta, i),
                   OpScalarMul(Arith("+", Arith("*", eta, dot_ni), Sqrt(kk)), n)))

\* operator*= that does not convert the product back to the kind of *this
TimesAssignNoConvert(this, rhs) == OpMulScalar(this, rhs)

\* the value of *this after *this += rhs, -= rhs, *= rhs, /= rhs
PlusAssign(this, rhs) == OpAssign(this, OpAdd(this, rhs))

MinusAssign(this, rhs) == OpAssign(this, OpSub(this, rhs))

TimesAssign(this, rhs) == OpAssign(this, OpMulScalar(this, rhs))

DivAssign(this, rhs) == OpAssign(this, OpDivScalar(this, rhs))

-----------------------------------------------------------------------------
(* The machine: a, b and k are constructed, operations are applied to      *)
(* them, and a result may be stored into a.                                *)

NoValue == [kind |-> "none"]

Halted == pc \in {"trap", "nonfinite"}

\* the ways an evaluation with status st ends
Outcomes(name, st) ==
  CASE st = "ok" -> {name}
    [] st = "ub" -> {name, "trap"}
    [] st = "nf" -> {"nonfinite"}

\* the value held after an evaluation that went on
Held(res) == [res EXCEPT !.st = "ok"]

\* an operation returns res and changes no object
Returns(name, res) ==
  /\ ~Halted
  /\ \E o \in Outcomes(name, res.st) :
       /\ pc' = o
       /\ r' = IF o = name THEN Held(res) ELSE NoValue
  /\ UNCHANGED <<a, b, k, h, v0>>

ScalarMul == Returns("mul", OpMulScalar(a, k))

ScalarDiv == Returns("div", OpDivScalar(a, k))

Add == Returns("add", OpAdd(a, b))

Sub == Returns("sub", OpSub(a, b))

Dot == Returns("dot", dot(a, b))

Length == Returns("length", length(a))

Reflect == Returns("reflect", reflect(a, b))

Refract == Returns("refract", refract(a, b, k))

\* Vector2<B> t(a), B the scalar kind of b
Construct == Returns("construct", ConvertCtor(b.kind, a))

\* a comparison returns a bool
Compares(name, res) ==
  /\ ~Halted
  /\ pc' = name
  /\ r' = [kind |-> "bool", v |-> res]
  /\ UNCHANGED <<a, b, k, h, v0>>

Eq == Compares("eq", OpEq(a, b))

Ne == Compares("ne", OpNe(a, b))

Gt == Compares("gt", OpGt(a, b))

Ge == Compares("ge", OpGe(a, b))

Lt == Compares("lt", OpLt(a, b))

Le == Compares("le", OpLe(a, b))

\* b = a; the reference returned is not used (TEST ConvertAssignment1)
Assign ==
  /\ ~Halted
  /\ LET res == OpAssign(b, a)
     IN  \E o \in Outcomes("assign", res.st) :
           /\ pc' = o
           /\ b' = IF o = "assign" THEN Held(res) ELSE b
  /\ UNCHANGED <<a, k, r, h, v0>>

\* a compound assignment stores res into a and returns a reference to a
Compound(name, res) ==
  /\ ~Halted
  /\ Len(h) < MaxOps
  /\ \E o \in Outcomes(name, res.st) :
       /\ pc' = o
       /\ a' = IF o = name THEN Held(res) ELSE a
       /\ r' = IF o = name THEN Held(res) ELSE NoValue
       /\ h' = IF o = name THEN Append(h, name) ELSE h
  /\ UNCHANGED <<b, k, v0>>

AddAssign == Compound("+=", PlusAssign(a, b))

SubAssign == Compound("-=", MinusAssign(a, b))

MulAssign == Compound("*=", TimesAssign(a, k))

DivideAssign == Compound("/=", DivAssign(a, k))

\* auto a = <the vector just returned>
Store ==
  /\ pc \in {"mul", "div", "add", "sub", "reflect"}
  /\ Len(h) < MaxOps
  /\ a' = r
  /\ h' = Append(h, pc)
  /\ pc' = "store"
  /\ UNCHANGED <<b, k, r, v0>>

\* the values the tests construct their operands from
Samples(kind) ==
  IF kind = "double"
  THEN {-2 * Scale - 1, -Scale - Scale \div 2, -Scale, -1, 0, 1, Scale \div 2,
        Scale, Scale + Scale \div 2 + 1, 5 * Scale}
  ELSE {n \in {MinOf(kind), MinOf(kind) + 1, -3, -2, -1, 0, 1, 2, 3, 5,
               Pow2(Bits(kind) - 1), MaxOf(kind) - 1, MaxOf(kind)} : InRange(kind, n)}

\* a few of them
Few(kind) ==
  IF kind = "double"
  THEN {-Scale - Scale \div 2, 0, Scale \div 2, Scale, 5 * Scale}
  ELSE {n \in {MinOf(kind), -1, 0, 1, 5, MaxOf(kind)} : InRange(kind, n)}

Vectors(kind, comps) ==
  {[kind |-> kind, x |-> x, y |-> y, st |-> "ok"] : x \in comps, y \in comps}

Scalars(kind, vals) == {Sc(kind, n) : n \in vals}

Start ==
  /\ r = NoValue
  /\ pc = "init"
  /\ h = <<>>
  /\ v0 = a

-----------------------------------------------------------------------------
(* (v * k) / k, v and k of one integer kind                                *)

RoundInit ==
  /\ \E kind \in IntKinds :
       /\ a \in Vectors(kind, Samples(kind))
       /\ k \in Scalars(kind, Samples(kind))
       /\ b = Zero(kind)
  /\ Start

RoundNext == ScalarMul \/ Store \/ ScalarDiv

SpecRound == RoundInit /\ [][RoundNext]_vars

-----------------------------------------------------------------------------
(* a + b, a - b and dot(a, b), a and b of any two kinds                    *)

SumInit ==
  /\ \E ka \in Kinds, kb \in Kinds :
       /\ a \in Vectors(ka, Few(ka))
       /\ b \in Vectors(kb, Few(kb))
  /\ k = IntLit(1)
  /\ Start

SumNext == Add \/ Sub \/ Dot

SpecSum == SumInit /\ [][SumNext]_vars

-----------------------------------------------------------------------------
(* length(a)                                                               *)

LenInit ==
  /\ \E kind \in Kinds : a \in Vectors(kind, Samples(kind))
  /\ b = Zero(a.kind)
  /\ k = IntLit(1)
  /\ Start

LenNext == Length \/ Dot

SpecLen == LenInit /\ [][LenNext]_vars

-----------------------------------------------------------------------------
(* Vector2<B> t(a) and b = a, a a double vector and B an integer kind.     *)
(* The components of a are those whose integer part B can hold: the        *)
(* conversion of any other double to B is undefined.                       *)

ConvInit ==
  /\ \E kind \in IntKinds :
       /\ a \in Vectors("double", {n \in Samples("double") : InRange(kind, Trunc(n))})
       /\ b = Zero(kind)
  /\ k = IntLit(1)
  /\ Start

ConvNext == Construct \/ Assign

SpecConv == ConvInit /\ [][ConvNext]_vars

-----------------------------------------------------------------------------
(* the comparisons of a and b                                              *)

CmpInit ==
  /\ \E ka \in Kinds, kb \in Kinds :
       /\ a \in Vectors(ka, Few(ka))
       /\ b \in Vectors(kb, Few(kb))
  /\ k = IntLit(1)
  /\ Start

CmpNext == Eq \/ Ne \/ Gt \/ Ge \/ Lt \/ Le

SpecCmp == CmpInit /\ [][CmpNext]_vars

-----------------------------------------------------------------------------
(* reflect(a, b), and reflect(reflect(a, b), b)                            *)

\* the normals: the unit axis vectors a kind holds, and two others
Normals(kind) ==
  Vectors(kind, IF kind = "double" THEN {-Scale, 0, Scale, Scale \div 2}
                ELSE {n \in {-1, 0, 1, 2} : InRange(kind, n)})

ReflectInit ==
  /\ \E ka \in Kinds, kb \in Kinds :
       /\ a \in Vectors(ka, Few(ka))
       /\ b \in Normals(kb)
  /\ k = IntLit(1)
  /\ Start

ReflectNext == Reflect \/ Store

SpecReflect == ReflectInit /\ [][ReflectNext]_vars

-----------------------------------------------------------------------------
(* refract(a, b, k): a the incident vector, b the normal, k the index      *)

RefractInit ==
  /\ \E ka \in Kinds, kb \in Kinds :
       /\ a \in Normals(ka)
       /\ b \in Normals(kb)
  /\ k \in Scalars("double", {Scale \div 2, Scale, Scale + Scale \div 2, 2 * Scale})
  /\ Start

RefractNext == Refract \/ Dot

SpecRefract == RefractInit /\ [][RefractNext]_vars

-----------------------------------------------------------------------------
(* a += b, a -= b, a *= k and a /= k                                       *)

CompoundInit ==
  /\ \E ka \in Kinds, kb \in Kinds, kk \in {"int32", "uint64", "double"} :
       /\ a \in IF ka = "double"
                THEN {[kind |-> ka, x |-> Scale, y |-> Scale + Scale \div 2, st |-> "ok"],
                      [kind |-> ka, x |-> -Scale - 1, y |-> 5 * Scale, st |-> "ok"]}
                ELSE {[kind |-> ka, x |-> 1, y |-> 2, st |-> "ok"],
                      [kind |-> ka, x |-> MaxOf(ka), y |-> MinOf(ka), st |-> "ok"]}
       /\ b \in {[kind |-> kb, x |-> 2 * u, y |-> u, st |-> "ok"] :
                   u \in IF kb = "double" THEN {Scale, Scale \div 2} ELSE {1, 3}}
       /\ k \in Scalars(kk, IF kk = "double" THEN {0, Scale + Scale \div 2} ELSE {0, 2})
  /\ Start

CompoundNext == AddAssign \/ SubAssign \/ MulAssign \/ DivideAssign

SpecCompound == CompoundInit /\ [][CompoundNext]_vars

-----------------------------------------------------------------------------
(* Claims                                                                  *)

\* C1 as stated: for a vector v and a nonzero scalar k of one integer kind,
\* (v * k) / k == v (wherever v * k is defined, that is, overflows no signed
\* kind).
C1_RoundTripAlways ==
  (h = <<"mul">> /\ pc = "div" /\ k.v # 0 /\ OpMulScalar(v0, k).st = "ok")
  => OpEq(r, v0)

\* C1, amended: for a vector v and a nonzero scalar k of one integer kind
\* such that v.x * k and v.y * k are values of that kind, (v * k) / k is v.
C1_RoundTrip ==
  (/\ h = <<"mul">> /\ pc = "div" /\ k.v # 0
   /\ InRange(v0.kind, v0.x * k.v)
   /\ InRange(v0.kind, v0.y * k.v))
  => (r = v0 /\ OpEq(r, v0))

C1_Witness ==
  /\ h = <<"mul">> /\ pc = "div"
  /\ v0.kind = "int32" /\ v0.x = 3 /\ v0.y = -2 /\ k.v = -2
  /\ a.x = -6 /\ a.y = 4
  /\ r = v0

\* C2 as stated: the length of a vector of an integer kind is the square
\* root of x*x + y*y with the squares and their sum taken as exact values
\* (wherever length is defined, that is, overflows no signed kind).
C2_LengthExact ==
  (pc = "length" /\ a.kind \in IntKinds /\ length(a).st = "ok")
  => r = Sqrt(Sc("double", (a.x * a.x + a.y * a.y) * Scale))

C7_ZeroIdentity ==
  a.kind \in IntKinds =>
    /\ (pc = "add" /\ b = Zero(a.kind)) => (r = a /\ OpEq(r, a))
    /\ (pc = "sub" /\ b = a) => (r = Zero(a.kind) /\ OpEq(r, Zero(a.kind)))
    /\ a = v0

C7_Witness ==
  /\ pc = "add" /\ a.kind = "uint32" /\ b = Zero("uint32")
  /\ a.x = MaxOf("uint32") /\ a.y = 1
  /\ r = a

\* C8: a + b == b + a and dot(a, b) == dot(b, a), the two orders giving
\* results of one kind, for a and b of any two kinds.
C8_Commutative ==
  /\ pc = "add" => (r = Held(OpAdd(b, a)) /\ OpEq(r, Held(OpAdd(b, a))))
  /\ pc = "dot" => (r = Held(dot(b, a)) /\ CmpEq(r, Held(dot(b, a))))

C8_Witness ==
  /\ pc = "add" /\ a.kind = "int32" /\ b.kind = "double"
  /\ a.x = 5 /\ b.x = Scale \div 2
  /\ r.kind = "double" /\ r.x = 5 * Scale + Scale \div 2

\* C10 as stated: a == b between vectors of two integer kinds holds iff the
\* components denote the same numbers, and a != b is its negation.
C10_EqualByValue ==
  (a.kind \in IntKinds /\ b.kind \in IntKinds) =>
    /\ pc = "eq" => r.v = (a.x = b.x /\ a.y = b.y)
    /\ pc = "ne" => r.v = ~(a.x = b.x /\ a.y = b.y)

\* C3: after a += b, a -= b, a *= k, a /= k, a holds a + b, a - b, a * k,
\* a / k of its value before, converted to its kind; b and k are unchanged;
\* the reference returned is a; after a chain of them a is the fold of the
\* binary operations over the value it was constructed with.
BinaryOf(op, x) ==
  CASE op = "+=" -> OpAdd(x, b)
    [] op = "-=" -> OpSub(x, b)
    [] op = "*=" -> OpMulScalar(x, k)
    [] op = "/=" -> OpDivScalar(x, k)

RECURSIVE FoldOps(_, _)
FoldOps(x, ops) ==
  IF ops = <<>> THEN x
  ELSE FoldOps(Held(ConvertCtor(x.kind, BinaryOf(Head(ops), x))), Tail(ops))

C3_Compound ==
  [][pc' \in {"+=", "-=", "*=", "/="} =>
       /\ a' = Held(ConvertCtor(a.kind, BinaryOf(pc', a)))
       /\ a'.kind = a.kind
       /\ b' = b /\ k' = k
       /\ r' = a'
       /\ a' = FoldOps(v0, h')]_vars

\* (1, 2) += (2, 1) leaves (3, 3); then *= 2 leaves (6, 6)
C3_Witness ==
  /\ v0.kind = "int32" /\ v0.x = 1 /\ v0.y = 2
  /\ b.kind = "int32" /\ b.x = 2 /\ b.y = 1
  /\ k.v = 2
  /\ h = <<"+=", "*=">>
  /\ a.x = 6 /\ a.y = 6 /\ a.kind = "int32"

\* C4: Vector2<B> t(a) and b = a, for a a double vector and B an integer
\* kind, give each component of a truncated toward zero, both the same, and
\* leave a unchanged.
TowardZero(v) ==
  CHOOSE t \in MinOf("int64") .. MaxOf("uint64") :
    \/ v >= 0 /\ t * Scale <= v /\ v < (t + 1) * Scale
    \/ v < 0 /\ t * Scale >= v /\ v > (t - 1) * Scale

C4_Truncates ==
  LET want == [kind |-> b.kind, x |-> TowardZero(a.x), y |-> TowardZero(a.y),
               st |-> "ok"]
  IN  /\ pc = "construct" => r = want
      /\ pc = "assign" => (b = want /\ (r.kind # "none" => r = b))
      /\ a = v0

\* (-1.5, 1.5 and a unit) becomes (-1, 1), constructed and assigned
C4_Witness ==
  /\ pc = "assign" /\ r.kind = "int32" /\ b.kind = "int32"
  /\ a.x = -Scale - Scale \div 2 /\ a.y = Scale + Scale \div 2 + 1
  /\ b.x = -1 /\ b.y = 1
  /\ r = b

\* the arithmetic of a kind on values of that kind
KMul(kind, x, y) == IF kind = "double" THEN RoundDiv(x * y, Scale) ELSE Wrap(kind, x * y)

KAdd(kind, x, y) == IF kind = "double" THEN x + y ELSE Wrap(kind, x + y)

KSub(kind, x, y) == IF kind = "double" THEN x - y ELSE Wrap(kind, x - y)

KOne(kind) == IF kind = "double" THEN Scale ELSE 1

\* C5: refract(a, b, k) is the zero vector when
\* kk = 1 - k*k*(1 - dot(b, a)^2) is negative, and otherwise, kk = 0
\* included, k*a - (k*dot(b, a) + sqrt(kk))*b; a and b are unchanged.
RefractK(i, n, eta) ==
  LET d == Conv("double", dot(n, i)).v
  IN  Scale - KMul("double", KMul("double", eta.v, eta.v),
                   Scale - KMul("double", d, d))

RefractWant(i, n, eta) ==
  LET d == Conv("double", dot(n, i)).v
      kk == RefractK(i, n, eta)
      c == KMul("double", eta.v, d) + Sqrt(Sc("double", kk)).v
      di == ConvertCtor("double", i)
      dn == ConvertCtor("double", n)
  IN  IF kk < 0 THEN [kind |-> "double", x |-> 0, y |-> 0, st |-> "ok"]
      ELSE [kind |-> "double",
            x |-> KMul("double", eta.v, di.x) - KMul("double", c, dn.x),
            y |-> KMul("double", eta.v, di.y) - KMul("double", c, dn.y),
            st |-> "ok"]

C5_Refract ==
  [][pc' = "refract" => (r' = RefractWant(a, b, k) /\ a' = a /\ b' = b)]_vars

\* kk is exactly 0 and the result is not the zero vector
C5_Witness ==
  /\ pc = "refract" /\ RefractK(a, b, k) = 0
  /\ a.kind = "int32" /\ b.kind = "double"
  /\ r.x # 0

\* C9: reflect(a, b) converts a and b to the promoted kind and returns
\* a - 2 * dot(a, b) * b computed in it; a and b are unchanged; for b a
\* unit axis vector, reflect(reflect(a, b), b) == a.
ReflectWant(vec, normal) ==
  LET R == Common(vec.kind, normal.kind)
      i == ConvertCtor(R, vec)
      n == ConvertCtor(R, normal)
      d == KAdd(R, KMul(R, i.x, n.x), KMul(R, i.y, n.y))
      t == KMul(R, 2 * KOne(R), d)
  IN  [kind |-> R, x |-> KSub(R, i.x, KMul(R, t, n.x)),
       y |-> KSub(R, i.y, KMul(R, t, n.y)), st |-> "ok"]

UnitAxis(n) ==
  LET u == KOne(n.kind)
  IN  <<n.x, n.y>> \in {<<u, 0>>, <<0, u>>, <<-u, 0>>, <<0, -u>>}

C9_Reflect ==
  [][pc' = "reflect" =>
       /\ r' = ReflectWant(a, b)
       /\ a' = a /\ b' = b
       /\ (h = <<"reflect">> /\ UnitAxis(b)) => OpEq(r', v0)]_vars

\* (5, -1) reflected twice about (-1, 0), the first result being (-5, -1)
C9_Witness ==
  /\ pc = "reflect" /\ h = <<"reflect">>
  /\ v0.kind = "int32" /\ v0.x = 5 /\ v0.y = -1
  /\ b.kind = "int64" /\ b.x = -1 /\ b.y = 0
  /\ a.kind = "int64" /\ a.x = -5 /\ a.y = -1
  /\ r.x = 5 /\ r.y = -1

====
